---------------------------- MODULE Spec2Model ----------------------------
(***************************************************************************)
(* py-embed: the embedding service of iota-sdk.                            *)
(*                                                                         *)
(* The service is a FastAPI application (app/main.py, app/routers/         *)
(* encode.py).  Its handlers are plain `def` functions, which FastAPI runs *)
(* on a thread pool, so several requests are in flight at once.  All of    *)
(* them use the ONE psycopg2 connection created in app/internal/db.py.     *)
(* psycopg2 serialises the statements of a shared connection, so the unit  *)
(* of interleaving is one statement (cursor.execute, conn.commit).         *)
(*                                                                         *)
(* State of the program:                                                   *)
(*   store       rows of table `embeddings` that are committed             *)
(*   pending     rows written by the connection's open transaction         *)
(*   connStatus  the connection's transaction status                       *)
(*   nextUuid    the table's uuid generator (RETURNING uuid)               *)
(*   th          the locals of each in-flight create_embeddings call       *)
(*   reply       what the last finished handler gave back                  *)
(*   nreq        number of requests accepted so far                        *)
(***************************************************************************)
EXTENDS Integers, Sequences, FiniteSets, TLC

VARIABLES store, pending, connStatus, nextUuid, th, reply, nreq

vars == <<store, pending, connStatus, nextUuid, th, reply, nreq>>

----------------------------------------------------------------------------
(* Bounds of the model *)

\* requests accepted in one behaviour
MaxRequests == 2
\* paragraphs in a request text
MaxParagraphs == 2
\* largest LIMIT a search asks for
MaxTopK == 2

\* the thread pool's workers that serve create_embeddings, in the order in
\* which the pool hands them out
WorkerOrder == <<"t1", "t2">>
Workers == {WorkerOrder[i] : i \in 1 .. Len(WorkerOrder)}

----------------------------------------------------------------------------
(* Input domains *)

\* a paragraph is empty, or short enough to be one chunk
Paragraphs == {"", "a", "b"}
Queries == {"a", "ab"}
References == {"A", "B"}
Languages == {"none", "en"}
Metas == {"{}"}

\* batch_size: typing.Optional[int] = 32 ; 0 is the zero-length batch
BatchSizes == {0, 32}
\* chunk_size: typing.Optional[int] = 1000 ; 10 < 20 = overlap
ChunkSizes == {10, 20, 1000}

\* new_text_splitter(data.chunk_size, 20)
CHUNK_OVERLAP == 20

RECURSIVE SeqsUpTo(_, _)
SeqsUpTo(S, n) ==
    IF n = 0 THEN {<<>>}
    ELSE LET shorter == SeqsUpTo(S, n - 1)
         IN  shorter \cup {Append(s, x) : s \in shorter, x \in S}

Texts == SeqsUpTo(Paragraphs, MaxParagraphs)

TopKs == {-1} \cup (1 .. MaxTopK)

Min(a, b) == IF a < b THEN a ELSE b
Abs(a) == IF a < 0 THEN -a ELSE a

----------------------------------------------------------------------------
(* app/internal/model.py: the text splitter and the embedding model *)

\* RecursiveCharacterTextSplitter.__init__ raises ValueError when
\* chunk_overlap > chunk_size; new_text_splitter adds no check of its own.
new_text_splitter_raises(chunk_size, chunk_overlap) == chunk_overlap > chunk_size

\* split_text: a text is its paragraphs (separator "\n\n"), each at most one
\* chunk long; the splitter strips its pieces and drops the empty ones.
split_text(text) == SelectSeq(text, LAMBDA p : p # "")

\* SentenceTransformer.encode of one string: a fixed vector per string.
Embed(s) ==
    CASE s = "a"  -> <<1, 0, 0>>
      [] s = "b"  -> <<0, 1, 0>>
      [] s = "ab" -> <<2, 1, 0>>
      [] OTHER    -> <<0, 0, 1>>

\* SentenceTransformer.encode iterates range(0, len(sentences), batch_size):
\* a batch_size of 0 raises ValueError inside the call.
encode_raises(batch_size) == batch_size = 0

\* model.encode(documents, ...).tolist(): one vector per document, in order
EncodeExact(documents) == [i \in 1 .. Len(documents) |-> Embed(documents[i])]

\* What the handlers may get back from the call: they take the list as it
\* comes and never compare its length with len(documents), so besides the
\* aligned list the model covers a capability that answers one vector short.
ModelOutputs(documents) ==
    LET exact == EncodeExact(documents)
    IN  {exact} \cup (IF exact = <<>> THEN {} ELSE {SubSeq(exact, 1, Len(exact) - 1)})

\* (a zip that pairs the documents with the vectors in reverse)
zipReversed(documents, output) ==
    [i \in 1 .. Min(Len(documents), Len(output)) |->
        <<documents[i], output[Min(Len(documents), Len(output)) + 1 - i]>>]

\* zip(documents, output): pairs up to the shorter of the two lists
zip(documents, output) ==
    [i \in 1 .. Min(Len(documents), Len(output)) |-> <<documents[i], output[i]>>]

----------------------------------------------------------------------------
(* The similarity query of search_embeddings (app/main.py, lines 57-58)    *)

RECURSIVE Dot(_, _)
Dot(u, v) ==
    IF u = <<>> \/ v = <<>> THEN 0
    ELSE Head(u) * Head(v) + Dot(Tail(u), Tail(v))

\* 1 - cosine_distance(embedding, q) = (e . q) / sqrt((e . e) * (q . q)),
\* kept exact as the pair num / sqrt(den2).
Score(embedding, q) ==
    [num |-> Dot(embedding, q), den2 |-> Dot(embedding, embedding) * Dot(q, q)]

\* x > y for two such numbers: t |-> t * |t| is increasing, so compare the
\* signed squares, cross-multiplied by the (positive) denominators.
Greater(x, y) == x.num * Abs(x.num) * y.den2 > y.num * Abs(y.num) * x.den2

\* the cutoff values 0 and 0.2 (the default) in the same form
Cutoffs == {[num |-> 0, den2 |-> 1], [num |-> 1, den2 |-> 25]}

\* SELECT uuid, text, reference_id, 1 - cosine_distance(embedding, %s) AS score
Matches(rows, q) ==
    {[uuid |-> r.uuid, text |-> r.text, reference_id |-> r.reference_id,
      score |-> Score(r.embedding, q)] : r \in rows}

\* (a filter that also keeps a score equal to the cutoff)
WhereGE(matches, cutoff) == {m \in matches : ~Greater(cutoff, m.score)}

\* WHERE score > %s
Where(matches, cutoff) == {m \in matches : Greater(m.score, cutoff)}

\* ORDER BY score DESC: every order of the rows in which no row comes before
\* a row of greater score; rows of equal score come in any order.
RECURSIVE OrderByScoreDesc(_)
OrderByScoreDesc(S) ==
    IF S = {} THEN {<<>>}
    ELSE LET top == {m \in S : \A o \in S : ~Greater(o.score, m.score)}
         IN  UNION {{<<m>> \o rest : rest \in OrderByScoreDesc(S \ {m})} : m \in top}

\* LIMIT %s (a negative LIMIT is an error of the statement, see Search)
Limit(rows, k) == SubSeq(rows, 1, Min(k, Len(rows)))

\* cursor.fetchall() of the query: the possible row lists
SearchRows(rows, q, cutoff, top_k) ==
    {Limit(o, top_k) : o \in OrderByScoreDesc(Where(Matches(rows, q), cutoff))}

----------------------------------------------------------------------------
(* Request bodies (the pydantic models) *)

\* class CreateEmbeddingsBody
CreateEmbeddingsBody ==
    [text : Texts, reference_id : References, meta : Metas, language : Languages,
     batch_size : BatchSizes, chunk_size : ChunkSizes]

\* class SearchEmbeddingsBody
SearchEmbeddingsBody ==
    [query : Queries, language : Languages, cutoff : Cutoffs, top_k : TopKs]

\* class EncodeQueryBody: its only field is query
EncodeQueryBody == [query : Queries]
EncodeQueryFields == {"query"}

\* class EncodeBody
EncodeBody == [text : Texts, batch_size : BatchSizes, chunk_size : ChunkSizes]

\* class BulkEncodeItem, class BulkEncodeBody
BulkEncodeItem ==
    {[id |-> "x", text |-> <<"a", "b">>], [id |-> "y", text |-> <<"b">>],
     [id |-> "y", text |-> <<"">>]}

BulkEncodeBody ==
    [texts : SeqsUpTo(BulkEncodeItem, MaxParagraphs), batch_size : BatchSizes,
     chunk_size : ChunkSizes]

\* class SearchResult
SearchResult(row) ==
    [uuid |-> row.uuid, text |-> row.text, reference_id |-> row.reference_id,
     score |-> row.score]

\* class EmbeddingsOutputItem
EmbeddingsOutputItem(uuid, text, e) == [uuid |-> uuid, text |-> text, embedding |-> e]

\* class EncodeOutput
EncodeOutput(text, e) == [text |-> text, embedding |-> e]

\* class BulkEncodeOutput
BulkEncodeOutput(id, text, e) == [id |-> id, text |-> text, embedding |-> e]

----------------------------------------------------------------------------
(* The connection of app/internal/db.py and the table it writes *)

\* connStatus is psycopg2's transaction status of the connection: "IDLE" (no
\* transaction open), "INTRANS" (a transaction open), "INERROR" (a transaction
\* that a failed statement has aborted).

\* rows a statement of the connection sees: the committed ones and those of
\* its own open transaction
Visible == store \cup pending

\* INSERT INTO embeddings (text, reference_id, embedding, language, meta)
\* VALUES (...) RETURNING uuid
NewRow(uuid, text, data, e) ==
    [uuid |-> uuid, text |-> text, reference_id |-> data.reference_id,
     embedding |-> e, language |-> data.language, meta |-> data.meta]

\* what a handler gave back: the response body (items) on success, the
\* exception that ended it otherwise; called: model.encode was invoked, and
\* output is what it returned
Reply(op, status, data, called, output, items) ==
    [op |-> op, status |-> status, data |-> data, called |-> called,
     output |-> output, items |-> items]

\* a worker that serves no create_embeddings call
Idle == [pc |-> "idle"]

Init ==
    /\ store = {}
    /\ pending = {}
    /\ connStatus = "IDLE"
    /\ nextUuid = 1
    /\ th = [w \in Workers |-> Idle]
    /\ reply = Reply("none", "ok", <<>>, FALSE, <<>>, <<>>)
    /\ nreq = 0

----------------------------------------------------------------------------
(* POST /embeddings/search (app/main.py, search_embeddings) *)

\* The whole handler is one statement of the connection.  psycopg2 opens a
\* transaction with the first statement and the handler never ends it.  In
\* an aborted transaction every statement is refused; a statement that fails
\* (LIMIT of a negative top_k) aborts the transaction.
search_embeddings(data) ==
    /\ nreq < MaxRequests
    /\ nreq' = nreq + 1
    /\ LET embedding == Embed(data.query)
       IN  IF connStatus = "INERROR"
           THEN /\ reply' = Reply("search_embeddings", "InFailedSqlTransaction",
                                  data, TRUE, <<embedding>>, <<>>)
                /\ UNCHANGED connStatus
           ELSE IF data.top_k < 0
           THEN /\ reply' = Reply("search_embeddings", "DatabaseError",
                                  data, TRUE, <<embedding>>, <<>>)
                /\ connStatus' = "INERROR"
           ELSE \E rows \in SearchRows(Visible, embedding, data.cutoff, data.top_k) :
                /\ reply' = Reply("search_embeddings", "ok", data, TRUE, <<embedding>>,
                                  [i \in 1 .. Len(rows) |-> SearchResult(rows[i])])
                /\ connStatus' = "INTRANS"
    /\ UNCHANGED <<store, pending, nextUuid, th>>

----------------------------------------------------------------------------
(* POST /embeddings (app/main.py, create_embeddings) *)

\* the worker the pool gives the next create_embeddings call: the first free
\* one (which free worker runs a call makes no difference to the call)
FreeWorker(w) ==
    \E i \in 1 .. Len(WorkerOrder) :
        /\ WorkerOrder[i] = w
        /\ th[w].pc = "idle"
        /\ \A j \in 1 .. (i - 1) : th[WorkerOrder[j]].pc # "idle"

\* lines 67-75: build the splitter, split, encode, start the loop
create_embeddings_start(w, data, output) ==
    /\ nreq < MaxRequests
    /\ FreeWorker(w)
    /\ nreq' = nreq + 1
    /\ IF new_text_splitter_raises(data.chunk_size, CHUNK_OVERLAP)
       THEN /\ reply' = Reply("create_embeddings", "ValueError", data, FALSE, <<>>, <<>>)
            /\ UNCHANGED th
       ELSE IF encode_raises(data.batch_size)
       THEN /\ reply' = Reply("create_embeddings", "ValueError", data, TRUE, <<>>, <<>>)
            /\ UNCHANGED th
       ELSE LET documents == split_text(data.text)
                pairs == zip(documents, output)
            IN  /\ th' = [th EXCEPT ![w] =
                            [pc |-> IF pairs = <<>> THEN "return" ELSE "insert",
                             data |-> data, documents |-> documents,
                             output |-> output, pairs |-> pairs, i |-> 1,
                             result |-> <<>>]]
                /\ UNCHANGED reply
    /\ UNCHANGED <<store, pending, connStatus, nextUuid>>

\* lines 77-84: cursor.execute(INSERT ... RETURNING uuid), fetchone, append.
\* fault: the storage engine refuses this statement.
create_embeddings_insert(w, fault) ==
    /\ th[w].pc = "insert"
    /\ LET t == th[w]
           text == t.pairs[t.i][1]
           e == t.pairs[t.i][2]
       IN  IF connStatus = "INERROR"
           THEN /\ reply' = Reply("create_embeddings", "InFailedSqlTransaction",
                                  t.data, TRUE, t.output, <<>>)
                /\ th' = [th EXCEPT ![w] = Idle]
                /\ UNCHANGED <<pending, connStatus, nextUuid>>
           ELSE IF fault
           THEN /\ reply' = Reply("create_embeddings", "DatabaseError",
                                  t.data, TRUE, t.output, <<>>)
                /\ th' = [th EXCEPT ![w] = Idle]
                /\ connStatus' = "INERROR"
                /\ UNCHANGED <<pending, nextUuid>>
           ELSE /\ pending' = pending \cup {NewRow(nextUuid, text, t.data, e)}
                /\ nextUuid' = nextUuid + 1
                /\ connStatus' = "INTRANS"
                /\ th' = [th EXCEPT ![w].pc = "commit",
                                    ![w].result = Append(t.result,
                                        EmbeddingsOutputItem(nextUuid, text, e))]
                /\ UNCHANGED reply
    /\ UNCHANGED <<store, nreq>>

\* line 85: conn.commit().  COMMIT ends the connection's transaction, whoever
\* opened it; in an aborted transaction the server answers it with ROLLBACK
\* and psycopg2 raises nothing.
create_embeddings_commit(w) ==
    /\ th[w].pc = "commit"
    /\ store' = IF connStatus = "INERROR" THEN store ELSE store \cup pending
    /\ pending' = {}
    /\ connStatus' = "IDLE"
    /\ th' = [th EXCEPT ![w].i = th[w].i + 1,
                        ![w].pc = IF th[w].i < Len(th[w].pairs)
                                  THEN "insert" ELSE "return"]
    /\ UNCHANGED <<nextUuid, reply, nreq>>

\* line 86: return CreateEmbeddingsOutput(items=result)
create_embeddings_return(w) ==
    /\ th[w].pc = "return"
    /\ reply' = Reply("create_embeddings", "ok", th[w].data, TRUE, th[w].output,
                      th[w].result)
    /\ th' = [th EXCEPT ![w] = Idle]
    /\ UNCHANGED <<store, pending, connStatus, nextUuid, nreq>>

----------------------------------------------------------------------------
(* DELETE /embeddings/{uuid} and DELETE /embeddings/reference/{reference_id} *)

\* lines 89-91: the handler echoes the uuid and touches nothing
delete_embeddings_uuid(uuid) ==
    /\ nreq < MaxRequests
    /\ nreq' = nreq + 1
    /\ reply' = Reply("delete_embeddings_uuid", "ok", [uuid |-> uuid], FALSE, <<>>, <<>>)
    /\ UNCHANGED <<store, pending, connStatus, nextUuid, th>>

\* lines 94-96: the handler echoes the reference_id and touches nothing
delete_embeddings_reference(reference_id) ==
    /\ nreq < MaxRequests
    /\ nreq' = nreq + 1
    /\ reply' = Reply("delete_embeddings_reference", "ok",
                      [reference_id |-> reference_id], FALSE, <<>>, <<>>)
    /\ UNCHANGED <<store, pending, connStatus, nextUuid, th>>

----------------------------------------------------------------------------
(* app/routers/encode.py *)

\* POST /encode/query: the arguments of model.encode are evaluated first, and
\* data.batch_size is no field of EncodeQueryBody: AttributeError, before the
\* call is made.
encode_query(data) ==
    /\ nreq < MaxRequests
    /\ nreq' = nreq + 1
    /\ reply' = IF "batch_size" \in EncodeQueryFields
                THEN Reply("encode_query", "ok", data, TRUE, <<Embed(data.query)>>,
                           Embed(data.query))
                ELSE Reply("encode_query", "AttributeError", data, FALSE, <<>>, <<>>)
    /\ UNCHANGED <<store, pending, connStatus, nextUuid, th>>

\* POST /encode/
encode_text_corpus(data, output) ==
    /\ nreq < MaxRequests
    /\ nreq' = nreq + 1
    /\ reply' =
         IF new_text_splitter_raises(data.chunk_size, CHUNK_OVERLAP)
         THEN Reply("encode_text_corpus", "ValueError", data, FALSE, <<>>, <<>>)
         ELSE IF encode_raises(data.batch_size)
         THEN Reply("encode_text_corpus", "ValueError", data, TRUE, <<>>, <<>>)
         ELSE LET pairs == zip(split_text(data.text), output)
              IN  Reply("encode_text_corpus", "ok", data, TRUE, output,
                        [i \in 1 .. Len(pairs) |-> EncodeOutput(pairs[i][1], pairs[i][2])])
    /\ UNCHANGED <<store, pending, connStatus, nextUuid, th>>

\* lines 78-82 of bulk_encode: one entry per chunk of every item, in order
RECURSIVE input_data(_)
input_data(texts) ==
    IF texts = <<>> THEN <<>>
    ELSE LET item == Head(texts)
             chunks == split_text(item.text)
         IN  [i \in 1 .. Len(chunks) |-> [id |-> item.id, text |-> chunks[i]]]
               \o input_data(Tail(texts))

\* POST /encode/bulk: embeddings_list[i] for every entry; IndexError when the
\* list is too short
bulk_encode(data, embeddings_list) ==
    /\ nreq < MaxRequests
    /\ nreq' = nreq + 1
    /\ reply' =
         IF new_text_splitter_raises(data.chunk_size, CHUNK_OVERLAP)
         THEN Reply("bulk_encode", "ValueError", data, FALSE, <<>>, <<>>)
         ELSE IF encode_raises(data.batch_size)
         THEN Reply("bulk_encode", "ValueError", data, TRUE, <<>>, <<>>)
         ELSE LET input == input_data(data.texts)
              IN  IF Len(embeddings_list) < Len(input)
                  THEN Reply("bulk_encode", "IndexError", data, TRUE, embeddings_list, <<>>)
                  ELSE Reply("bulk_encode", "ok", data, TRUE, embeddings_list,
                             [i \in 1 .. Len(input) |->
                                BulkEncodeOutput(input[i].id, input[i].text,
                                                 embeddings_list[i])])
    /\ UNCHANGED <<store, pending, connStatus, nextUuid, th>>

\* the raw_input list handed to model.encode by bulk_encode (line 82)
raw_input(texts) == [i \in 1 .. Len(input_data(texts)) |-> input_data(texts)[i].text]

----------------------------------------------------------------------------

\* create requests of the behaviours explored: language is only stored with
\* the row, so one value of it is drawn
CreateRequests == {data \in CreateEmbeddingsBody : data.language = "en"}

\* the handlers of app/main.py
Next ==
    \/ \E data \in SearchEmbeddingsBody : search_embeddings(data)
    \/ \E w \in Workers, data \in CreateRequests :
         \E output \in ModelOutputs(split_text(data.text)) :
            create_embeddings_start(w, data, output)
    \/ \E w \in Workers, fault \in BOOLEAN : create_embeddings_insert(w, fault)
    \/ \E w \in Workers : create_embeddings_commit(w)
    \/ \E w \in Workers : create_embeddings_return(w)
    \/ \E uuid \in 1 .. MaxRequests * MaxParagraphs : delete_embeddings_uuid(uuid)
    \/ \E reference_id \in References : delete_embeddings_reference(reference_id)

\* the handlers of app/routers/encode.py, which touch neither the connection
\* nor the table
NextEncode ==
    \/ \E data \in EncodeQueryBody : encode_query(data)
    \/ \E data \in EncodeBody :
         \E output \in ModelOutputs(split_text(data.text)) :
            encode_text_corpus(data, output)
    \/ \E data \in BulkEncodeBody :
         \E embeddings_list \in ModelOutputs(raw_input(data.texts)) :
            bulk_encode(data, embeddings_list)

SpecEncode == Init /\ [][NextEncode]_vars

Spec == Init /\ [][Next]_vars

----------------------------------------------------------------------------
(* The similarity query over every small table *)

\* rows of a table in the search behaviours
MaxRows == 3

\* the tables create_embeddings can have committed: n rows with the uuids
\* 1 .. n, each with a chunk, its vector and a language (reference_id, which
\* the query only copies, is the same in all)
RowFields == [text : Paragraphs \ {""}, reference_id : {"A"}, language : Languages,
              meta : Metas]

Tables ==
    UNION {{{NewRow(i, f[i].text, f[i], Embed(f[i].text)) : i \in 1 .. n} :
              f \in [1 .. n -> RowFields]} : n \in 0 .. MaxRows}

InitSearch ==
    /\ store \in Tables
    /\ pending = {}
    /\ connStatus = "IDLE"
    /\ nextUuid = Cardinality(store) + 1
    /\ th = [w \in Workers |-> Idle]
    /\ reply = Reply("none", "ok", <<>>, FALSE, <<>>, <<>>)
    /\ nreq = 0

NextSearch == \E data \in SearchEmbeddingsBody : search_embeddings(data)

SpecSearch == InitSearch /\ [][NextSearch]_vars

----------------------------------------------------------------------------
(* Properties of search_embeddings *)

\* the records of the table whose score against the query is above the cutoff
Qualifying(data) ==
    {r \in Visible : Greater(Score(r.embedding, Embed(data.query)), data.cutoff)}

\* C1: a search that returns gives back exactly the records whose score
\* (1 - cosine distance to the query vector) is strictly greater than the
\* cutoff, each once and with that score, in descending order of score, cut
\* to the top_k best; a record whose score equals the cutoff is not among
\* them, and the language of the request and of the records plays no part.
C1_SearchReturnsRankedMatches ==
    (reply.op = "search_embeddings" /\ reply.status = "ok" /\ reply.data.top_k > 0) =>
        LET items == reply.items
            data == reply.data
            q == Embed(data.query)
            returned == {items[i].uuid : i \in 1 .. Len(items)}
        IN  /\ Len(items) = Min(data.top_k, Cardinality(Qualifying(data)))
            /\ \A i \in 1 .. Len(items) :
                 \E r \in Qualifying(data) :
                    items[i] = [uuid |-> r.uuid, text |-> r.text,
                                reference_id |-> r.reference_id,
                                score |-> Score(r.embedding, q)]
            /\ \A i, j \in 1 .. Len(items) :
                 i < j => /\ items[i].uuid # items[j].uuid
                          /\ ~Greater(items[j].score, items[i].score)
            /\ \A r \in Qualifying(data) :
                 r.uuid \notin returned =>
                    \A i \in 1 .. Len(items) :
                       ~Greater(Score(r.embedding, q), items[i].score)

\* a search with top_k = 1 has returned the one best of two records above
\* the cutoff, a third record whose score equals the cutoff stayed out, and
\* the returned record's language is not the language of the request
C1_Witness ==
    /\ reply.op = "search_embeddings" /\ reply.status = "ok"
    /\ reply.data.top_k = 1
    /\ Len(reply.items) = 1
    /\ Cardinality(Qualifying(reply.data)) = 2
    /\ \E r \in Visible :
          /\ ~Greater(Score(r.embedding, Embed(reply.data.query)), reply.data.cutoff)
          /\ ~Greater(reply.data.cutoff, Score(r.embedding, Embed(reply.data.query)))
    /\ \E r \in Visible :
          /\ r.uuid = reply.items[1].uuid
          /\ r.language # reply.data.language

----------------------------------------------------------------------------
(* Properties of create_embeddings *)

\* worker w executes its INSERT successfully in this step
InsertStep(w) == th[w].pc = "insert" /\ th'[w].pc = "commit"

\* worker w returns its result list in this step
ReturnStep(w) == th[w].pc = "return" /\ th'[w].pc = "idle"

\* the uuids of the rows of the table and of the items the calls in flight hold
UsedUuids ==
    {r.uuid : r \in Visible}
      \cup UNION {IF th[w].pc = "idle" THEN {}
                  ELSE {th[w].result[k].uuid : k \in 1 .. Len(th[w].result)} :
                  w \in Workers}

\* what a call that returns gives back, when the model returned one vector
\* per chunk: one item per chunk, in chunk order, with the chunk, its vector,
\* and an id of its own
C5_Returned ==
    (/\ reply.op = "create_embeddings" /\ reply.status = "ok"
     /\ Len(reply.output) = Len(split_text(reply.data.text))) =>
        LET chunks == split_text(reply.data.text)
            items == reply.items
        IN  /\ Len(items) = Len(chunks)
            /\ \A i \in 1 .. Len(items) :
                  /\ items[i].text = chunks[i]
                  /\ items[i].embedding = reply.output[i]
            /\ \A i, j \in 1 .. Len(items) : i < j => items[i].uuid # items[j].uuid

\* what one INSERT of a call does: it adds exactly one row, with the chunk at
\* hand, the request's reference_id and an id no row and no item had, and
\* appends that id with the chunk and its vector to the result
C5_Inserted(w) ==
    LET t == th[w]
        text == t.documents[t.i]
    IN  /\ store' = store
        /\ \E r \in pending' :
              /\ pending' = pending \cup {r}
              /\ r.uuid \notin UsedUuids
              /\ r.text = text
              /\ r.reference_id = t.data.reference_id
              /\ th'[w].result = Append(t.result,
                    [uuid |-> r.uuid, text |-> text, embedding |-> r.embedding])

\* the result list of a call grows only by its INSERTs, one item each
C5_ResultGrowsByInsert(w) ==
    (th[w].pc # "idle" /\ th'[w].pc # "idle" /\ th'[w].result # th[w].result) =>
        InsertStep(w)

\* C5: a successful ingest of a text that splits into chunks c1..cn with
\* vectors e1..en inserts exactly n new records, one per chunk, each with the
\* request's reference_id and a fresh id, and returns n items, the i-th with
\* the id of the record inserted for ci, the text ci and the vector ei, in
\* chunk order; an empty text inserts nothing and returns an empty list.
C5_IngestInsertsAndReturnsPerChunk ==
    /\ []C5_Returned
    /\ [][\A w \in Workers :
            /\ InsertStep(w) => C5_Inserted(w)
            /\ C5_ResultGrowsByInsert(w)]_vars

\* an ingest of two different chunks has returned its two items
C5_Witness ==
    /\ reply.op = "create_embeddings" /\ reply.status = "ok"
    /\ Len(reply.output) = Len(split_text(reply.data.text))
    /\ Len(reply.items) = 2
    /\ reply.items[1].text # reply.items[2].text
    /\ \A i \in 1 .. 2 : \E r \in store : r.uuid = reply.items[i].uuid

----------------------------------------------------------------------------
(* Properties of the delete handlers *)

\* the step in which a handler that is one step long answers
Answers(op) == nreq' = nreq + 1 /\ reply'.op = op

\* C2: after delete-by-reference with reference id R the table holds no
\* record whose reference_id is R, and every record of another reference_id
\* is as it was: the committed rows after the call are those of before it
\* whose reference_id is not R.
C2_DeleteByReferenceRemoves ==
    [][Answers("delete_embeddings_reference") =>
         store' = {r \in store : r.reference_id # reply'.data.reference_id}]_vars

\* C3: delete-by-id with id U removes exactly the record with id U when there
\* is one, leaves every other record as it was, and answers without an error
\* also when no record has id U: the committed rows after the call are those
\* of before it whose id is not U.
C3_DeleteByIdRemoves ==
    [][Answers("delete_embeddings_uuid") =>
         /\ reply'.status = "ok"
         /\ store' = {r \in store : r.uuid # reply'.data.uuid}]_vars

----------------------------------------------------------------------------
(* Properties of commits and failures on the shared connection *)

\* C4: when an ingest call returns, every id of its result list is the id of
\* a record committed in the table at that moment.
C4_ReturnedIdsAreCommitted ==
    [][\A w \in Workers :
         ReturnStep(w) =>
            \A k \in 1 .. Len(th[w].result) :
               \E r \in store' : r.uuid = th[w].result[k].uuid]_vars

\* worker w's INSERT of chunk k > 1 fails in this step
InsertFails(w) == th[w].pc = "insert" /\ th'[w].pc = "idle" /\ th[w].i > 1

\* C6: when the insert of chunk ck (k > 1) of an ingest fails, the call is
\* rejected, the records of c1..c(k-1) are committed in the table, and there
\* is no record of ck..cn.
C6_EarlierChunksStayCommitted ==
    [][\A w \in Workers :
         InsertFails(w) =>
            /\ reply'.op = "create_embeddings" /\ reply'.status # "ok"
            /\ \A k \in 1 .. Len(th[w].result) :
                  \E r \in store' : r.uuid = th[w].result[k].uuid
            /\ Len(th[w].result) = th[w].i - 1
            /\ store' \cup pending' = Visible]_vars

\* C9: no component holds state across calls, so the outcome of a call
\* depends only on its inputs and the table: a search that is valid itself
\* (its LIMIT is not negative) succeeds whatever came before it, and no
\* ingest is refused for the aborted transaction an earlier call left.
C9_NoCrossCallState ==
    /\ (reply.op = "search_embeddings" /\ reply.data.top_k >= 0) => reply.status = "ok"
    /\ reply.op = "create_embeddings" => reply.status # "InFailedSqlTransaction"

----------------------------------------------------------------------------
(* Properties of the configuration and of the model's answers *)

\* a configuration the service is to refuse
InvalidConfig(data) == data.batch_size = 0 \/ data.chunk_size <= CHUNK_OVERLAP

\* C7: an ingest or encode request with batch_size 0, or with a chunk_size
\* not greater than the overlap 20, is rejected before model.encode is called
\* and before any record is inserted.
C7_InvalidConfigRejectedFirst ==
    /\ (/\ reply.op \in {"create_embeddings", "encode_text_corpus", "bulk_encode"}
        /\ InvalidConfig(reply.data)) => (reply.status = "ValueError" /\ ~reply.called)
    /\ \A w \in Workers : th[w].pc # "idle" => ~InvalidConfig(th[w].data)

\* C8: the query-only encode calls model.encode on the whole query string and
\* returns its one vector; it does not fail.
C8_EncodeQueryReturnsVector ==
    reply.op = "encode_query" =>
        /\ reply.status = "ok"
        /\ reply.called
        /\ reply.items = Embed(reply.data.query)

\* the chunks a finished call handed to model.encode
ChunksOf(r) ==
    IF r.op = "bulk_encode" THEN raw_input(r.data.texts) ELSE split_text(r.data.text)

\* C10: when model.encode returns a number of vectors other than the number
\* of chunks, ingest and encode fail: ingest inserts no record, and no call
\* returns a list.
C10_MismatchedCountFails ==
    /\ (/\ reply.op \in {"create_embeddings", "encode_text_corpus", "bulk_encode"}
        /\ reply.status = "ok") => Len(reply.output) = Len(ChunksOf(reply))
    /\ \A w \in Workers :
          th[w].pc = "commit" => Len(th[w].output) = Len(th[w].documents)

============================================================================
